---- MODULE Spec2Model ----
(***************************************************************************)
(* Model of staff_app.py: the orders table and the six HTTP handlers that  *)
(* read and write it.  Every handler that issues one SQL statement is one  *)
(* action.  delete_item issues a SELECT and, later, an UPDATE on the same  *)
(* connection; the two statements are separate steps of a request, so that *)
(* other requests can run between them.  Each handler calls               *)
(* get_db_connection at most once; conn records whether the request that   *)
(* took the last step has called it and whether it has called close().     *)
(*                                                                         *)
(* The handlers are modelled at the level of the view functions: path      *)
(* arguments are the non-negative integers the <int:...> converters pass   *)
(* on.  The storage layer is modelled as always available.                 *)
(***************************************************************************)
EXTENDS Integers, Sequences, FiniteSets, TLC

\* ---------------------------------------------------------------- bounds
MaxOrders  == 2      \* rows the table may hold
MaxItems   == 3      \* length of a submitted item list
NumWorkers == 1      \* delete_item requests that may be in flight at once

\* ---------------------------------------------------------------- inputs
Requests == 1..NumWorkers

\* The JSON item objects clients order, in menu order: a name and a price;
\* every third object carries no price member.
MenuObject(k) ==
    IF k % 3 = 0 THEN [name |-> ToString(k)]
    ELSE [name |-> ToString(k), price |-> 2 * k + 3]

\* Item lists a client submits: any selection from the first MaxItems menu
\* objects, in menu order.
RECURSIVE Selections(_)
Selections(n) ==
    IF n = 0 THEN { <<>> }
    ELSE LET shorter == Selections(n - 1)
         IN  shorter \cup { Append(s, MenuObject(n)) : s \in shorter }

ItemLists == Selections(MaxItems)

\* The 'total' member of the submitted JSON body: absent, a number, or a
\* string that is not a number.
TotalInputs ==
    { [kind |-> "missing", num |-> 0],
      [kind |-> "number",  num |-> 1],
      [kind |-> "text",    num |-> 0] }

Phones == { "050", "052" }

\* request.args.get('phone'): absent, empty, or a phone.
PhoneArgs ==
    { [given |-> FALSE, val |-> ""], [given |-> TRUE, val |-> ""] }
        \cup { [given |-> TRUE, val |-> p] : p \in Phones }

\* request.args.get('order', type=int): None, or an integer.
OrderArgs ==
    { [given |-> FALSE, val |-> 0] }
        \cup { [given |-> TRUE, val |-> i] : i \in -1..MaxOrders }

PathIds     == 0..(MaxOrders + 1)     \* <int:order_id>
PathIndexes == 0..MaxItems            \* <int:item_index>

\* ---------------------------------------------------------------- state
VARIABLES
    orders,    \* the orders table: id -> row
    nextId,    \* the value the id sequence hands out next
    req,       \* per delete_item request: where it is and its locals
    resp,      \* the response returned by the last step (op "none": none yet)
    conn       \* the connection of the request that took the last step:
               \* "none" (get_db_connection not called), "open" or "closed"

vars == <<orders, nextId, req, resp, conn>>

\* ---------------------------------------------------------------- helpers
\* json.dumps of an item list: each object becomes its members, as
\* <<key, value>> pairs in key order.
DumpObject(obj) ==
    LET name  == << <<"name", obj.name>> >>
    IN  IF "price" \in DOMAIN obj THEN Append(name, <<"price", obj.price>>) ELSE name

json_dumps(items) == [k \in 1..Len(items) |-> DumpObject(items[k])]

\* json.loads: the members of each object, keyed again.
LoadObject(doc) ==
    IF Len(doc) = 2 THEN [name |-> doc[1][2], price |-> doc[2][2]]
    ELSE [name |-> doc[1][2]]

json_loads(text) == [k \in 1..Len(text) |-> LoadObject(text[k])]

\* float(data.get('total', 0))
TotalRaises(t) == t.kind = "text"

TotalFloat(t) == IF t.kind = "missing" THEN 0 ELSE t.num

\* i.get('price', 0)
GetPrice(i) == IF "price" \in DOMAIN i THEN i.price ELSE 0

\* A sum that starts at the second item.
RECURSIVE SumPricesSkipsFirst(_)
SumPricesSkipsFirst(items) ==
    IF Len(items) <= 1 THEN 0
    ELSE SumPricesSkipsFirst(SubSeq(items, 1, Len(items) - 1)) + GetPrice(items[Len(items)])

\* sum(float(i.get('price', 0)) for i in items)
RECURSIVE SumPrices(_)
SumPrices(items) ==
    IF items = <<>> THEN 0
    ELSE SumPrices(SubSeq(items, 1, Len(items) - 1)) + GetPrice(items[Len(items)])

\* A pop that counts item_index from 1.
PopOneBased(items, item_index) ==
    SubSeq(items, 1, item_index - 1) \o SubSeq(items, item_index + 1, Len(items))

\* items.pop(item_index), item_index counted from 0
Pop(items, item_index) ==
    SubSeq(items, 1, item_index) \o SubSeq(items, item_index + 2, Len(items))

Idle == [pc |-> "idle", order_id |-> 0, item_index |-> 0, items |-> <<>>]

NoResponse == [op |-> "none", code |-> 0, body |-> <<>>]

Response(op, code, body) == [op |-> op, code |-> code, body |-> body]

\* ---------------------------------------------------------------- Init
Init ==
    /\ orders = <<>>
    /\ nextId = 1
    /\ req    = [r \in Requests |-> Idle]
    /\ resp   = NoResponse
    /\ conn   = "none"

\* ---------------------------------------------------------------- actions
\* The orders table's column defaults, which the INSERT asks for with
\* DEFAULT: the id column draws the next value of its sequence, the status
\* column starts as "pending".
NextVal(n) == n + 1

DefaultStatus == "pending"

\* An INSERT that lands on the newest row when there is one.
InsertRowOverLast(tbl, id, name, phone, table, items, total) ==
    LET at == IF id - 1 \in DOMAIN tbl THEN id - 1 ELSE id
    IN  [i \in DOMAIN tbl \cup {at} |->
            IF i = at
            THEN [name |-> name, phone |-> phone, table_number |-> table,
                  item |-> json_dumps(items), total |-> total, status |-> DefaultStatus]
            ELSE tbl[i]]

\* INSERT INTO orders (...) VALUES (...) RETURNING id
InsertRow(tbl, id, name, phone, table, items, total) ==
    [i \in DOMAIN tbl \cup {id} |->
        IF i = id
        THEN [name |-> name, phone |-> phone, table_number |-> table,
              item |-> json_dumps(items), total |-> total, status |-> DefaultStatus]
        ELSE tbl[i]]

submit_order(name, phone, table, items, total) ==
    IF TotalRaises(total)
    THEN /\ resp' = Response("submit_order", 500, [error |-> "Internal Server Error"])
         /\ conn' = "none"
         /\ UNCHANGED <<orders, nextId, req>>
    ELSE /\ nextId <= MaxOrders
         /\ orders' = InsertRow(orders, nextId, name, phone, table, items, TotalFloat(total))
         /\ nextId' = NextVal(nextId)
         /\ resp'   = Response("submit_order", 200,
                               [message |-> "Order received successfully!", order_id |-> nextId])
         /\ conn'   = "closed"
         /\ UNCHANGED req

SubmitOrder ==
    \E phone \in Phones, items \in ItemLists, total \in TotalInputs :
        submit_order("dana", phone, "7", items, total)

\* SELECT ... FROM orders WHERE status != 'completed' ORDER BY id ASC
RECURSIVE OrderByIdAsc(_)
OrderByIdAsc(ids) ==
    IF ids = {} THEN <<>>
    ELSE LET first == CHOOSE i \in ids : \A j \in ids : i <= j
         IN  <<first>> \o OrderByIdAsc(ids \ {first})

\* A SELECT without the WHERE clause.
SelectEveryOrder(tbl) == OrderByIdAsc(DOMAIN tbl)

SelectActive(tbl) ==
    OrderByIdAsc({ i \in DOMAIN tbl : tbl[i].status /= "completed" })

OrderView(tbl, id) ==
    [id    |-> id,
     name  |-> tbl[id].name,
     phone |-> tbl[id].phone,
     table |-> tbl[id].table_number,
     items |-> json_loads(tbl[id].item),
     total |-> tbl[id].total]

get_orders ==
    LET rows == SelectActive(orders)
    IN  /\ resp' = Response("get_orders", 200,
                            [k \in 1..Len(rows) |-> OrderView(orders, rows[k])])
        /\ conn' = "closed"
        /\ UNCHANGED <<orders, nextId, req>>

\* An UPDATE of one order that lost its WHERE clause.
UpdateCompletedNoWhere(tbl, order_id) ==
    [i \in DOMAIN tbl |-> [tbl[i] EXCEPT !.status = "completed"]]

\* An UPDATE of one order that also zeroes its total.
UpdateCompletedZeroesTotal(tbl, order_id) ==
    [i \in DOMAIN tbl |->
        IF i = order_id THEN [tbl[i] EXCEPT !.status = "completed", !.total = 0]
        ELSE tbl[i]]

\* UPDATE orders SET status = 'completed' WHERE id = %s
UpdateCompleted(tbl, order_id) ==
    [i \in DOMAIN tbl |->
        IF i = order_id THEN [tbl[i] EXCEPT !.status = "completed"] ELSE tbl[i]]

delete_order(order_id) ==
    /\ resp'   = Response("delete_order", 200, [message |-> "Order marked as completed!"])
    /\ orders' = UpdateCompleted(orders, order_id)
    /\ conn'   = "closed"
    /\ UNCHANGED <<nextId, req>>

DeleteOrder == \E order_id \in PathIds : delete_order(order_id)

\* An UPDATE of all orders with the comparison of its WHERE clause inverted.
UpdateAllCompletedInverted(tbl) ==
    [i \in DOMAIN tbl |->
        IF tbl[i].status = "completed"
        THEN [tbl[i] EXCEPT !.status = "completed"] ELSE tbl[i]]

\* UPDATE orders SET status = 'completed' WHERE status != 'completed'
UpdateAllCompleted(tbl) ==
    [i \in DOMAIN tbl |->
        IF tbl[i].status /= "completed"
        THEN [tbl[i] EXCEPT !.status = "completed"] ELSE tbl[i]]

delete_all_orders ==
    /\ resp'   = Response("delete_all_orders", 200,
                          [message |-> "All orders marked as completed!"])
    /\ orders' = UpdateAllCompleted(orders)
    /\ conn'   = "closed"
    /\ UNCHANGED <<nextId, req>>

\* A range check that lets item_index = len(items) through.
IndexOutOfRangeOffByOne(items, item_index) == item_index < 0 \/ item_index > Len(items)

\* 'if item_index < 0 or item_index >= len(items)'
IndexOutOfRange(items, item_index) == item_index < 0 \/ item_index >= Len(items)

\* delete_item, first statement: SELECT item FROM orders WHERE id = %s,
\* then the two early returns.
delete_item_select(r, order_id, item_index) ==
    /\ req[r].pc = "idle"
    /\ IF order_id \notin DOMAIN orders
       THEN /\ resp' = Response("delete_item", 404, [error |-> "Order not found"])
            /\ UNCHANGED req
       ELSE LET items == json_loads(orders[order_id].item)
            IN  IF IndexOutOfRange(items, item_index)
                THEN /\ resp' = Response("delete_item", 400,
                                         [error |-> "Item index out of range"])
                     /\ UNCHANGED req
                ELSE /\ resp' = NoResponse
                     /\ req' = [req EXCEPT ![r] =
                                   [pc |-> "update", order_id |-> order_id,
                                    item_index |-> item_index, items |-> items]]
    /\ conn' = "open"
    /\ UNCHANGED <<orders, nextId>>

DeleteItemSelect ==
    \E r \in DOMAIN req, order_id \in PathIds, item_index \in PathIndexes :
        delete_item_select(r, order_id, item_index)

\* An UPDATE of the items that also resets the status column.
UpdateItemsReopens(tbl, order_id, items, new_total) ==
    [i \in DOMAIN tbl |->
        IF i = order_id
        THEN [tbl[i] EXCEPT !.item = json_dumps(items), !.total = new_total,
                            !.status = "pending"]
        ELSE tbl[i]]

\* An UPDATE that writes of the new list only what the row still holds, as a
\* delete_item that merged with the stored list would.
UpdateItemsMerging(tbl, order_id, items, new_total) ==
    [i \in DOMAIN tbl |->
        IF i = order_id
        THEN [tbl[i] EXCEPT
                 !.item = json_dumps(SelectSeq(items,
                              LAMBDA x : \E k \in 1..Len(json_loads(tbl[i].item)) :
                                            json_loads(tbl[i].item)[k] = x)),
                 !.total = new_total]
        ELSE tbl[i]]

\* An UPDATE that writes the item column and leaves total as it was.
UpdateItemsKeepsTotal(tbl, order_id, items, new_total) ==
    [i \in DOMAIN tbl |->
        IF i = order_id THEN [tbl[i] EXCEPT !.item = json_dumps(items)] ELSE tbl[i]]

\* UPDATE orders SET item = %s, total = %s WHERE id = %s
UpdateItems(tbl, order_id, items, new_total) ==
    [i \in DOMAIN tbl |->
        IF i = order_id
        THEN [tbl[i] EXCEPT !.item = json_dumps(items), !.total = new_total]
        ELSE tbl[i]]

\* An UPDATE for the emptied order that zeroes total and forgets the status.
UpdateEmptiedTotalOnly(tbl, order_id) ==
    [i \in DOMAIN tbl |->
        IF i = order_id THEN [tbl[i] EXCEPT !.total = 0] ELSE tbl[i]]

UpdateEmptied(tbl, order_id) ==
    [i \in DOMAIN tbl |->
        IF i = order_id
        THEN [tbl[i] EXCEPT !.status = "completed", !.total = 0]
        ELSE tbl[i]]

\* delete_item, second statement: items.pop, the UPDATE chosen by 'if items',
\* the commit and the close.
delete_item_update(r) ==
    /\ req[r].pc = "update"
    /\ LET items == Pop(req[r].items, req[r].item_index)
       IN  orders' = IF items /= <<>>
                     THEN UpdateItems(orders, req[r].order_id, items, SumPrices(items))
                     ELSE UpdateEmptied(orders, req[r].order_id)
    /\ req'  = [req EXCEPT ![r] = Idle]
    /\ resp' = Response("delete_item", 200, [message |-> "Item deleted and total updated!"])
    /\ conn' = "closed"
    /\ UNCHANGED nextId

DeleteItemUpdate == \E r \in DOMAIN req : delete_item_update(r)

\* A phone test that only catches the empty string.
FalsyEmptyOnly(arg) == arg.given /\ arg.val = ""

\* order_status: 'if not phone'
Falsy(arg) == ~arg.given \/ arg.val = ""

\* 'if order_id'
Truthy(arg) == arg.given /\ arg.val /= 0

\* A lookup by phone that takes the oldest order (ORDER BY id ASC).
SelectStatusOldest(tbl, phone, order_id) ==
    IF Truthy(order_id)
    THEN { i \in DOMAIN tbl : i = order_id.val /\ tbl[i].phone = phone.val }
    ELSE LET mine == { i \in DOMAIN tbl : tbl[i].phone = phone.val }
         IN  { i \in mine : \A j \in mine : i <= j }

\* 'if order_id:' picks the SELECT
SelectStatus(tbl, phone, order_id) ==
    IF Truthy(order_id)
    THEN { i \in DOMAIN tbl : i = order_id.val /\ tbl[i].phone = phone.val }
    ELSE LET mine == { i \in DOMAIN tbl : tbl[i].phone = phone.val }
         IN  { i \in mine : \A j \in mine : j <= i }

order_status(phone, order_id) ==
    /\ IF Falsy(phone)
       THEN /\ resp' = Response("order_status", 400,
                                [found |-> FALSE, error |-> "phone_required"])
            /\ conn' = "none"
       ELSE LET row == SelectStatus(orders, phone, order_id)
            IN  /\ IF row /= {}
                   THEN resp' = Response("order_status", 200,
                                         [found  |-> TRUE,
                                          status |-> orders[CHOOSE i \in row : TRUE].status])
                   ELSE resp' = Response("order_status", 404, [found |-> FALSE])
                /\ conn' = "closed"
    /\ UNCHANGED <<orders, nextId, req>>

OrderStatus == \E phone \in PhoneArgs, order_id \in OrderArgs : order_status(phone, order_id)

Next ==
    \/ SubmitOrder
    \/ get_orders
    \/ DeleteOrder
    \/ delete_all_orders
    \/ DeleteItemSelect
    \/ DeleteItemUpdate
    \/ OrderStatus

Spec == Init /\ [][Next]_vars

\* ------------------------------------------------- concurrent delete_item
\* The same handlers with one more delete_item request in flight than Spec
\* allows, working on a table of one order: requests may run their SELECT
\* and UPDATE statements in any interleaving.
RaceRequests == 1..(NumWorkers + 1)

InitRace ==
    /\ orders = <<>>
    /\ nextId = 1
    /\ req    = [r \in RaceRequests |-> Idle]
    /\ resp   = NoResponse
    /\ conn   = "none"

SubmitFirstOrder ==
    /\ orders = <<>>
    /\ SubmitOrder

NextRace ==
    \/ SubmitFirstOrder
    \/ DeleteOrder
    \/ DeleteItemSelect
    \/ DeleteItemUpdate

SpecRace == InitRace /\ [][NextRace]_vars

\* ================================================================ claims
\* What the formulas read off a state.
Items(tbl, i)     == json_loads(tbl[i].item)
Completed(tbl, i) == tbl[i].status = "completed"
ViewIds(body)     == { body[k].id : k \in 1..Len(body) }

\* The sum of the price members of a list, a missing price counting as 0.
RECURSIVE PriceSum(_)
PriceSum(items) ==
    IF items = <<>> THEN 0
    ELSE (IF "price" \in DOMAIN Head(items) THEN Head(items).price ELSE 0)
             + PriceSum(Tail(items))

\* C1: once an order's status is "completed" it is "completed" in every later
\* state: no step of any handler takes a completed order back to "pending"
\* (or removes its row).
C1_CompletedIsTerminal ==
    [][\A i \in DOMAIN orders :
          Completed(orders, i) => i \in DOMAIN orders' /\ Completed(orders', i)]_vars

\* A completed order on which delete_item has since committed a rewrite of
\* its item list (its list is shorter than any list stored with total 0 or 1
\* by submit_order could make it: total is a recomputed sum).
C1_Witness ==
    \E i \in DOMAIN orders :
        /\ Completed(orders, i)
        /\ orders[i].total > 1
        /\ resp.op = "delete_item" /\ resp.code = 200
C3_LastItemCompletes ==
    [][/\ \A r \in DOMAIN req :
             (req[r].pc = "update" /\ Len(req[r].items) = 1 /\ delete_item_update(r))
                 => /\ req[r].item_index = 0
                    /\ Completed(orders', req[r].order_id)
                    /\ orders'[req[r].order_id].total = 0
       /\ \A i \in DOMAIN orders : Completed(orders, i) => Completed(orders', i)
       /\ resp'.op = "get_orders"
             => \A i \in DOMAIN orders' :
                   Completed(orders', i) => i \notin ViewIds(resp'.body)]_vars

\* The only order of the table right after the delete_item that removed its
\* last item: the stored price is not 0, so a total of 0 is not a recomputed
\* sum.
C3_Witness ==
    /\ DOMAIN orders = {1}
    /\ resp.op = "delete_item" /\ resp.code = 200
    /\ Completed(orders, 1)
    /\ orders[1].total = 0
    /\ Len(Items(orders, 1)) = 1 /\ PriceSum(Items(orders, 1)) > 0

\* C4: when delete_item removes the only remaining item of an order, the
\* order's stored item list is the empty list afterwards.
C4_EmptyListStored ==
    [][\A r \in DOMAIN req :
          delete_item_update(r) /\ Len(req[r].items) = 1
              => Items(orders', req[r].order_id) = <<>>]_vars

\* C5: a delete_item(order, i) on a list of n >= 2 items that no other writer
\* has changed between its SELECT and its UPDATE stores that list with the
\* element at position i removed, the others in their order, and sets total
\* to the sum of the remaining prices (a missing price counting as 0),
\* whatever total was stored before.
RemovedAt(old, new, i) ==
    /\ Len(new) = Len(old) - 1
    /\ \A k \in 1..Len(new) : new[k] = IF k <= i THEN old[k] ELSE old[k + 1]

C5_DeleteItemRecomputes ==
    [][\A r \in DOMAIN req :
          /\ delete_item_update(r)
          /\ Len(req[r].items) >= 2
          /\ Items(orders, req[r].order_id) = req[r].items
          => LET id == req[r].order_id
             IN  /\ RemovedAt(Items(orders, id), Items(orders', id), req[r].item_index)
                 /\ orders'[id].total = PriceSum(Items(orders', id))
                 /\ resp'.code = 200]_vars

\* The middle item of a three-item order deleted: the first and the last are
\* left, in that order, and total is the first one's price (the last has no
\* price member), not the client's 0 or 1.
C5_Witness ==
    /\ DOMAIN orders = {1}
    /\ resp.op = "delete_item" /\ resp.code = 200
    /\ Items(orders, 1) = <<MenuObject(1), MenuObject(3)>>
    /\ orders[1].total = 5

\* C6: delete_item on an id with no row returns 404, and with an index
\* outside [0, length of the stored list) returns 400; in both cases no row
\* of the table changes (and no UPDATE is left to run).  (A SELECT step of
\* delete_item answers as delete_item or not yet; other steps are passed
\* over by that test.)
C6_DeleteItemErrors ==
    [][resp'.op \in {"delete_item", "none"} =>
          \A r \in DOMAIN req, id \in PathIds, idx \in PathIndexes :
              delete_item_select(r, id, idx)
                  => /\ id \notin DOMAIN orders
                         => /\ resp'.op = "delete_item" /\ resp'.code = 404
                            /\ orders' = orders /\ req'[r].pc = "idle"
                     /\ (id \in DOMAIN orders /\ idx \notin 0..(Len(Items(orders, id)) - 1))
                         => /\ resp'.op = "delete_item" /\ resp'.code = 400
                            /\ orders' = orders /\ req'[r].pc = "idle"]_vars

\* The index-out-of-range response on a table that holds a two-item order
\* (index 2 or 3 was asked for).
C6_Witness ==
    /\ resp.op = "delete_item" /\ resp.code = 400
    /\ DOMAIN orders = {1}
    /\ Len(Items(orders, 1)) = 2

\* C7: get_orders returns exactly the orders whose status is not "completed",
\* each once, in ascending id order, with the stored fields; it leaves the
\* table unchanged; polled again with no step in between it returns the
\* same response.
C7_GetOrders ==
    [][(resp'.op = "get_orders" /\ get_orders)
          => LET body == resp'.body
             IN  /\ resp'.op = "get_orders" /\ resp'.code = 200
                 /\ ViewIds(body) = { i \in DOMAIN orders : ~Completed(orders, i) }
                 /\ \A k \in 1..(Len(body) - 1) : body[k].id < body[k + 1].id
                 /\ \A k \in 1..Len(body) :
                       /\ body[k].items = Items(orders, body[k].id)
                       /\ body[k].total = orders[body[k].id].total
                       /\ body[k].phone = orders[body[k].id].phone
                 /\ orders' = orders /\ nextId' = nextId
                 /\ resp.op = "get_orders" => resp' = resp]_vars

\* A get_orders response that lists both orders of the table.
C7_Witness ==
    /\ resp.op = "get_orders"
    /\ Len(resp.body) = 2
    /\ DOMAIN orders = {1, 2}

\* C8: delete_order(id) returns success; an existing order is "completed"
\* afterwards; on an already completed order or an id with no row the table
\* does not change; applied again to its own result it changes nothing.
C8_DeleteOrder ==
    [][\A id \in PathIds :
          delete_order(id)
              => /\ resp'.op = "delete_order" /\ resp'.code = 200
                 /\ DOMAIN orders' = DOMAIN orders
                 /\ id \in DOMAIN orders => Completed(orders', id)
                 /\ (id \notin DOMAIN orders \/ Completed(orders, id)) => orders' = orders
                 /\ UpdateCompleted(orders', id) = orders']_vars

\* delete_order has just answered, and the table holds a completed order
\* next to a pending one.
C8_Witness ==
    /\ resp.op = "delete_order"
    /\ DOMAIN orders = {1, 2}
    /\ Completed(orders, 2) /\ ~Completed(orders, 1)

\* C9: after delete_all_orders every order present is "completed" and
\* get_orders, run next, returns the empty list; a second delete_all_orders
\* in succession returns success and leaves the table as the first left it.
C9_DeleteAllOrders ==
    [][/\ delete_all_orders
          => /\ resp'.op = "delete_all_orders" /\ resp'.code = 200
             /\ DOMAIN orders' = DOMAIN orders
             /\ \A i \in DOMAIN orders' : Completed(orders', i)
             /\ resp.op = "delete_all_orders" => orders' = orders
       /\ (resp.op = "delete_all_orders" /\ get_orders) => resp'.body = <<>>]_vars

\* delete_all_orders has just answered on a table of two orders.
C9_Witness ==
    /\ resp.op = "delete_all_orders"
    /\ DOMAIN orders = {1, 2}
    /\ \A i \in DOMAIN orders : Completed(orders, i)

\* C10: order_status with a non-empty phone p and an integer order id i
\* answers found with the status of order i if order i exists with phone p,
\* and 404 otherwise.
C10_StatusOfThatOrder ==
    [][\A p \in PhoneArgs, o \in OrderArgs :
          (order_status(p, o) /\ p.given /\ p.val /= "" /\ o.given)
              => IF o.val \in DOMAIN orders /\ orders[o.val].phone = p.val
                 THEN /\ resp'.code = 200
                      /\ resp'.body = [found |-> TRUE, status |-> orders[o.val].status]
                 ELSE resp'.code = 404]_vars

\* C11: order_status with a non-empty phone p and no order id answers with
\* the current status of the order with the highest id among the orders whose
\* phone is p, and with 404 when no order has phone p.
C11_LatestOrderOfPhone ==
    [][resp'.op = "order_status" =>
          \A p \in PhoneArgs, o \in OrderArgs :
              (p.given /\ p.val /= "" /\ ~o.given /\ order_status(p, o))
                  => LET mine == { i \in DOMAIN orders : orders[i].phone = p.val }
                     IN  IF mine = {}
                         THEN resp'.code = 404 /\ resp'.body = [found |-> FALSE]
                         ELSE /\ resp'.code = 200
                              /\ \E i \in mine :
                                    /\ \A j \in mine : j <= i
                                    /\ resp'.body = [found  |-> TRUE,
                                                     status |-> orders[i].status]]_vars

\* Two orders of one phone, the older completed and the newer pending, and
\* the answer "pending".
C11_Witness ==
    /\ DOMAIN orders = {1, 2}
    /\ orders[1].phone = orders[2].phone
    /\ Completed(orders, 1) /\ ~Completed(orders, 2)
    /\ resp.op = "order_status" /\ resp.code = 200
    /\ resp.body.status = "pending"

\* C12: order_status called without a phone parameter answers 400
\* phone_required for every value of the order parameter and every table,
\* and does so before it opens a connection: the table is neither read nor
\* written.
C12_PhoneRequired ==
    [][resp'.op = "order_status" =>
          \A p \in PhoneArgs, o \in OrderArgs :
              (~p.given /\ order_status(p, o))
                  => /\ resp'.code = 400
                     /\ resp'.body = [found |-> FALSE, error |-> "phone_required"]
                     /\ conn' = "none"
                     /\ orders' = orders]_vars

\* The phone_required answer on a table that holds orders.
C12_Witness ==
    /\ resp.op = "order_status" /\ resp.code = 400
    /\ resp.body.error = "phone_required"
    /\ conn = "none"
    /\ DOMAIN orders = {1, 2}

\* C13: a successful submit_order adds exactly one row, with status
\* "pending", and returns its id, which is larger than the id of every row
\* present (so the ids returned are distinct and strictly increasing); no
\* step removes a row or changes an existing row's id, and a step that is
\* not a successful submit_order adds none.
C13_IdsIncrease ==
    [][/\ DOMAIN orders \subseteq DOMAIN orders'
       /\ IF resp'.op = "submit_order" /\ resp'.code = 200
          THEN LET id == resp'.body.order_id
               IN  /\ id \notin DOMAIN orders
                   /\ DOMAIN orders' = DOMAIN orders \cup {id}
                   /\ orders'[id].status = "pending"
                   /\ \A j \in DOMAIN orders : j < id /\ orders'[j] = orders[j]
          ELSE DOMAIN orders' = DOMAIN orders]_vars

\* The second order has just been submitted and got id 2, after the first
\* was completed.
C13_Witness ==
    /\ resp.op = "submit_order" /\ resp.code = 200
    /\ resp.body.order_id = 2
    /\ DOMAIN orders = {1, 2}
    /\ Completed(orders, 1) /\ ~Completed(orders, 2)

\* C14: every request that has opened a database connection has closed it
\* when it returns its response.
C14_ConnectionClosedOnReturn ==
    resp.op /= "none" => conn /= "open"

\* C15: submit_order has no failure path of its own: a request whose total is
\* missing or not a number is accepted (200) and stored with total 0.
C15_SubmitNeverRejects ==
    [][resp'.op = "submit_order" =>
          \A phone \in Phones, items \in ItemLists, total \in TotalInputs :
              (total.kind \in {"missing", "text"}
                   /\ submit_order("dana", phone, "7", items, total))
                  => /\ resp'.code = 200
                     /\ orders'[resp'.body.order_id].total = 0]_vars

\* C18: delete_order and delete_all_orders change nothing but status: the
\* rows are the same rows and the name, phone, table_number, item list and
\* total of each are as before; delete_order(id) also leaves the status of
\* every order other than id as it was.
SameButStatus(i) ==
    /\ orders'[i].name         = orders[i].name
    /\ orders'[i].phone        = orders[i].phone
    /\ orders'[i].table_number = orders[i].table_number
    /\ orders'[i].item         = orders[i].item
    /\ orders'[i].total        = orders[i].total

C18_OnlyStatusChanges ==
    [][/\ resp'.op = "delete_order" =>
             \A id \in PathIds :
                 delete_order(id)
                     => /\ DOMAIN orders' = DOMAIN orders /\ nextId' = nextId
                        /\ \A i \in DOMAIN orders :
                              /\ SameButStatus(i)
                              /\ i /= id => orders'[i].status = orders[i].status
       /\ (resp'.op = "delete_all_orders" /\ delete_all_orders)
             => /\ DOMAIN orders' = DOMAIN orders /\ nextId' = nextId
                /\ \A i \in DOMAIN orders : SameButStatus(i)]_vars

\* delete_order has just completed the first of two orders; its items and
\* its total, which the client supplied, are still there.
C18_Witness ==
    /\ resp.op = "delete_order"
    /\ DOMAIN orders = {1, 2}
    /\ Completed(orders, 1) /\ ~Completed(orders, 2)
    /\ Len(Items(orders, 1)) = MaxItems
    /\ orders[1].total = 1

\* x is an entry of the list s.
InList(x, s) == \E k \in 1..Len(s) : s[k] = x

\* C16: the read and the write of delete_item are two statements with nothing
\* between them to stop another request.  A delete_item that commits after
\* another delete_item removed a different item of the list it read answers
\* 200 and stores the list it read minus its own item: the item the other
\* request removed is stored again, and of the two removals one is lost.
C16_LostUpdate ==
    [][\A r \in DOMAIN req :
          delete_item_update(r) =>
              LET id   == req[r].order_id
                  snap == req[r].items
                  mine == req[r].item_index
              IN  \A j \in 1..Len(snap) :
                      (j - 1 /= mine /\ Items(orders, id) = Pop(snap, j - 1))
                          => /\ resp'.code = 200
                             /\ Items(orders', id) = Pop(snap, mine)
                             /\ InList(snap[j], Items(orders', id))
                             /\ Len(Items(orders', id)) = Len(snap) - 1]_vars

\* After the lost update.  A request that read the list between the two
\* commits holds what the first commit stored; the second commit has since
\* answered 200 and the stored list, of the same length, holds an item that
\* the first commit had removed and lacks the item the second removed.
C16_Witness ==
    /\ resp.op = "delete_item" /\ resp.code = 200
    /\ \E r \in DOMAIN req :
          /\ req[r].pc = "update"
          /\ LET stored == Items(orders, req[r].order_id)
                 seen   == req[r].items
             IN  /\ Len(stored) = Len(seen)
                 /\ Len(stored) = MaxItems - 1
                 /\ \E k \in 1..Len(stored) : ~InList(stored[k], seen)
                 /\ \E k \in 1..Len(seen) : ~InList(seen[k], stored)

\* C17: no step makes the stored item list of an order longer, whatever the
\* interleaving of the requests.
C17_ListNeverGrows ==
    [][\A i \in DOMAIN orders :
          Len(Items(orders', i)) <= Len(Items(orders, i))]_vars

\* C19: a delete_item that commits its non-emptying UPDATE leaves the order
\* with total equal to the sum of the prices of the list it stored, whatever
\* other requests have committed since it read the list.
C19_WrittenTotalMatchesList ==
    [][\A r \in DOMAIN req :
          (delete_item_update(r) /\ Len(req[r].items) >= 2)
              => LET id == req[r].order_id
                 IN  /\ Items(orders', id) /= <<>>
                     /\ orders'[id].total = PriceSum(Items(orders', id))]_vars

\* A delete_item has just committed on a stale read: the stored list holds
\* an item that a request reading before that commit did not see, its total
\* is the sum of its own prices and not the sum of the list seen before.
C19_Witness ==
    /\ resp.op = "delete_item" /\ resp.code = 200
    /\ \E r \in DOMAIN req :
          /\ req[r].pc = "update"
          /\ LET id == req[r].order_id
             IN  /\ ~Completed(orders, id)
                 /\ \E k \in 1..Len(Items(orders, id)) :
                        ~InList(Items(orders, id)[k], req[r].items)
                 /\ orders[id].total = PriceSum(Items(orders, id))
                 /\ orders[id].total /= PriceSum(req[r].items)
                 /\ orders[id].total > 1

====
